---- MODULE Spec2Model ----
(***************************************************************************)
(* Model of examples/parse_user.rs: read user.json, parse it as a generic  *)
(* JSON tree, repair the shape of the verification sub-objects in place,   *)
(* serialize the tree again, attempt the strict decode into User, and      *)
(* print either the summary of the decoded user or the diagnostics.        *)
(***************************************************************************)
EXTENDS Integers, Sequences, FiniteSets, TLC

VARIABLES pc, file, json_value, parsed, cleaned_json, out, result, steps

vars == <<pc, file, json_value, parsed, cleaned_json, out, result, steps>>

(* Largest number of records the three containers of one document hold    *)
(* together.                                                               *)
MaxRecords == 2

----------------------------------------------------------------------------
(* serde_json::Value: a tagged tree.  An object is a function from its key *)
(* set to values (a key that is absent is outside the domain; a key that   *)
(* is present with JSON null maps to Null).                                *)

Null == [kind |-> "null"]
Str(s) == [kind |-> "string", str |-> s]
Num(n) == [kind |-> "number", num |-> n]
Obj(f) == [kind |-> "object", obj |-> f]
Arr(s) == [kind |-> "array", arr |-> s]

EmptyMap == [k \in {} |-> Null]

(* Map::insert *)
MapInsert(f, key, v) == [k \in DOMAIN f \cup {key} |-> IF k = key THEN v ELSE f[k]]

(* Map::remove *)
MapRemove(f, key) == [k \in DOMAIN f \ {key} |-> f[k]]

(* Value::as_object / as_object_mut, Value::as_array_mut, Value::as_str    *)
IsObject(v) == v.kind = "object"
IsArray(v) == v.kind = "array"
IsStr(v) == v.kind = "string"

(* Value::get / get_mut with a string index: Some only on an object that   *)
(* has the key.                                                            *)
HasKey(v, key) == IsObject(v) /\ key \in DOMAIN v.obj

----------------------------------------------------------------------------
(* The normalization of main, lines 18-60.                                 *)

(* FixEmail without the test of the tag. *)
FixEmailAnyTag(email) ==
    IF HasKey(email, "verification") /\ IsObject(email.obj["verification"])
    THEN Obj(MapInsert(email.obj, "verification",
             Obj(MapRemove(email.obj["verification"].obj,
                           "external_verification_redirect_url"))))
    ELSE email

(* lines 25-32: one record of email_addresses *)
FixEmail(email) ==
    IF HasKey(email, "verification") /\ IsObject(email.obj["verification"])
    THEN LET verification == email.obj["verification"].obj
         IN  IF "object" \in DOMAIN verification
                /\ IsStr(verification["object"])
                /\ verification["object"].str = "verification_saml"
             THEN Obj(MapInsert(email.obj, "verification",
                      Obj(MapRemove(verification, "external_verification_redirect_url"))))
             ELSE email
    ELSE email

(* FixSamlAccount that removes the field when it finds it. *)
FixSamlAccountToggle(saml_account) ==
    IF HasKey(saml_account, "verification") /\ IsObject(saml_account.obj["verification"])
    THEN LET verification == saml_account.obj["verification"].obj
         IN  IF "external_verification_redirect_url" \notin DOMAIN verification
             THEN Obj(MapInsert(saml_account.obj, "verification",
                      Obj(MapInsert(verification, "external_verification_redirect_url", Null))))
             ELSE Obj(MapInsert(saml_account.obj, "verification",
                      Obj(MapRemove(verification, "external_verification_redirect_url"))))
    ELSE saml_account

(* FixSamlAccount that repairs only a verification with a string tag. *)
FixSamlAccountGated(saml_account) ==
    IF HasKey(saml_account, "verification") /\ IsObject(saml_account.obj["verification"])
    THEN LET verification == saml_account.obj["verification"].obj
         IN  IF /\ "object" \in DOMAIN verification
                /\ IsStr(verification["object"])
                /\ "external_verification_redirect_url" \notin DOMAIN verification
             THEN Obj(MapInsert(saml_account.obj, "verification",
                      Obj(MapInsert(verification, "external_verification_redirect_url", Null))))
             ELSE saml_account
    ELSE saml_account

(* lines 39-45: one record of saml_accounts *)
FixSamlAccount(saml_account) ==
    IF HasKey(saml_account, "verification") /\ IsObject(saml_account.obj["verification"])
    THEN LET verification == saml_account.obj["verification"].obj
         IN  IF "external_verification_redirect_url" \notin DOMAIN verification
             THEN Obj(MapInsert(saml_account.obj, "verification",
                      Obj(MapInsert(verification, "external_verification_redirect_url", Null))))
             ELSE saml_account
    ELSE saml_account

(* FixEnterpriseAccount that inserts null without the test of presence. *)
FixEnterpriseAccountOverwrite(enterprise_account) ==
    IF HasKey(enterprise_account, "verification")
       /\ IsObject(enterprise_account.obj["verification"])
    THEN Obj(MapInsert(enterprise_account.obj, "verification",
             Obj(MapInsert(enterprise_account.obj["verification"].obj,
                           "external_verification_redirect_url", Null))))
    ELSE enterprise_account

(* lines 52-57: one record of enterprise_accounts *)
FixEnterpriseAccount(enterprise_account) ==
    IF HasKey(enterprise_account, "verification")
       /\ IsObject(enterprise_account.obj["verification"])
    THEN LET verification == enterprise_account.obj["verification"].obj
         IN  IF "external_verification_redirect_url" \notin DOMAIN verification
             THEN Obj(MapInsert(enterprise_account.obj, "verification",
                      Obj(MapInsert(verification, "external_verification_redirect_url", Null))))
             ELSE enterprise_account
    ELSE enterprise_account

(* RemoveDenylisted that keeps a field whose value is null. *)
RemoveDenylistedNonNull(obj) ==
    IF "create_organizations_limit" \in DOMAIN obj /\ obj["create_organizations_limit"] # Null
    THEN MapRemove(obj, "create_organizations_limit")
    ELSE obj

(* line 20 *)
RemoveDenylisted(obj) == MapRemove(obj, "create_organizations_limit")

(* FixEmailAddresses that takes a container that is no array for an empty *)
(* one.                                                                   *)
FixEmailAddressesCoerce(obj) ==
    IF "email_addresses" \in DOMAIN obj
    THEN LET email_addresses ==
                 IF IsArray(obj["email_addresses"]) THEN obj["email_addresses"].arr ELSE << >>
         IN  MapInsert(obj, "email_addresses",
                 Arr([i \in 1..Len(email_addresses) |-> FixEmail(email_addresses[i])]))
    ELSE obj

(* lines 23-34 *)
FixEmailAddresses(obj) ==
    IF "email_addresses" \in DOMAIN obj /\ IsArray(obj["email_addresses"])
    THEN LET email_addresses == obj["email_addresses"].arr
         IN  MapInsert(obj, "email_addresses",
                 Arr([i \in 1..Len(email_addresses) |-> FixEmail(email_addresses[i])]))
    ELSE obj

(* FixSamlAccounts that collects the repaired records back to front. *)
FixSamlAccountsReversed(obj) ==
    IF "saml_accounts" \in DOMAIN obj /\ IsArray(obj["saml_accounts"])
    THEN LET saml_accounts == obj["saml_accounts"].arr
         IN  MapInsert(obj, "saml_accounts",
                 Arr([i \in 1..Len(saml_accounts) |->
                         FixSamlAccount(saml_accounts[Len(saml_accounts) + 1 - i])]))
    ELSE obj

(* lines 37-47 *)
FixSamlAccounts(obj) ==
    IF "saml_accounts" \in DOMAIN obj /\ IsArray(obj["saml_accounts"])
    THEN LET saml_accounts == obj["saml_accounts"].arr
         IN  MapInsert(obj, "saml_accounts",
                 Arr([i \in 1..Len(saml_accounts) |-> FixSamlAccount(saml_accounts[i])]))
    ELSE obj

(* lines 50-59 *)
FixEnterpriseAccounts(obj) ==
    IF "enterprise_accounts" \in DOMAIN obj /\ IsArray(obj["enterprise_accounts"])
    THEN LET enterprise_accounts == obj["enterprise_accounts"].arr
         IN  MapInsert(obj, "enterprise_accounts",
                 Arr([i \in 1..Len(enterprise_accounts) |->
                         FixEnterpriseAccount(enterprise_accounts[i])]))
    ELSE obj

(* lines 18-60 *)
Normalize(v) ==
    IF IsObject(v)
    THEN Obj(FixEnterpriseAccounts(FixSamlAccounts(FixEmailAddresses(RemoveDenylisted(v.obj)))))
    ELSE v

----------------------------------------------------------------------------
(* JSON text.  serde_json writes an object as the list of its members in   *)
(* the map's iteration order and an array as the list of its items; the    *)
(* parser builds the map back by inserting the members one by one, a later *)
(* duplicate replacing an earlier one.  Malformed stands for text the      *)
(* parser cannot tokenize.                                                 *)

KeyOrder == << "create_organizations_limit", "email_addresses", "enterprise_accounts",
               "external_verification_redirect_url", "id", "object", "saml_accounts",
               "status", "verification" >>

Malformed == [kind |-> "malformed"]

RECURSIVE ToText(_)
ToText(v) ==
    IF IsObject(v)
    THEN LET keys == SelectSeq(KeyOrder, LAMBDA k : k \in DOMAIN v.obj)
         IN  [kind |-> "object",
              members |-> [i \in 1..Len(keys) |->
                              [key |-> keys[i], val |-> ToText(v.obj[keys[i]])]]]
    ELSE IF IsArray(v)
    THEN [kind |-> "array", items |-> [i \in 1..Len(v.arr) |-> ToText(v.arr[i])]]
    ELSE v

RECURSIVE WellFormed(_)
WellFormed(t) ==
    IF t.kind = "malformed" THEN FALSE
    ELSE IF t.kind = "object"
    THEN \A i \in 1..Len(t.members) : WellFormed(t.members[i].val)
    ELSE IF t.kind = "array"
    THEN \A i \in 1..Len(t.items) : WellFormed(t.items[i])
    ELSE TRUE

RECURSIVE FromText(_)
RECURSIVE FromMembers(_, _)
FromMembers(members, n) ==
    IF n = 0 THEN EmptyMap
    ELSE MapInsert(FromMembers(members, n - 1), members[n].key, FromText(members[n].val))
FromText(t) ==
    IF t.kind = "object" THEN Obj(FromMembers(t.members, Len(t.members)))
    ELSE IF t.kind = "array" THEN Arr([i \in 1..Len(t.items) |-> FromText(t.items[i])])
    ELSE t

----------------------------------------------------------------------------
(* The documents user.json may hold.                                       *)

Absent == [kind |-> "absent"]

(* The object with the fields of `fields` that are not Absent. *)
MakeObject(fields) ==
    Obj([k \in {x \in DOMAIN fields : fields[x] # Absent} |-> fields[k]])

TagValues == {Absent, Str("verification_saml"), Str("verification_email_code"), Num(7)}

UrlValues == {Absent, Null, Str("https://x")}

VerificationValues ==
    {Str("pending")}
    \cup {MakeObject([object |-> tag, external_verification_redirect_url |-> url,
                      status |-> Str("verified")]) : tag \in TagValues, url \in UrlValues}

RecordValues ==
    {Str("record"), Obj([id |-> Str("r")])}
    \cup {Obj([id |-> Str("r"), verification |-> v]) : v \in VerificationValues}

ContainerValues(n, records) ==
    IF n = 0 THEN {Absent, Str("none"), Arr(<<>>)}
    ELSE {Arr(s) : s \in [1..n -> records]}

(* The records the containers of the run of main are filled from: one with *)
(* no verification, one the email repair changes, one the account repair   *)
(* changes.                                                                *)
SampleRecords ==
    { Obj([id |-> Str("r")]),
      Obj([id |-> Str("r"),
           verification |-> Obj([object |-> Str("verification_saml"),
                                 external_verification_redirect_url |-> Str("https://x"),
                                 status |-> Str("verified")])]),
      Obj([id |-> Str("r"),
           verification |-> Obj([object |-> Str("verification_email_code"),
                                 status |-> Str("verified")])]) }

TopValues ==
    { [id |-> Absent, col |-> Null], [id |-> Str("user_1"), col |-> Absent],
      [id |-> Str("user_1"), col |-> Num(5)] }

(* Documents whose top level is not an object, and texts that are not     *)
(* the output of the serializer: members out of order and a repeated key,  *)
(* and text that does not tokenize (at the top, and nested).               *)
OtherTexts ==
    { Null,
      [kind |-> "array", items |->
          << [kind |-> "object", members |->
                 << [key |-> "create_organizations_limit", val |-> Num(5)] >>] >>],
      [kind |-> "object", members |->
          << [key |-> "id", val |-> Str("user_0")],
             [key |-> "create_organizations_limit", val |-> Num(5)],
             [key |-> "enterprise_accounts", val |-> [kind |-> "array", items |->
                 << [kind |-> "object", members |->
                        << [key |-> "verification", val |->
                               [kind |-> "object", members |-> << >>]] >>] >>]],
             [key |-> "id", val |-> Str("user_1")] >>],
      Malformed,
      [kind |-> "object", members |-> << [key |-> "id", val |-> Malformed] >>] }

----------------------------------------------------------------------------
(* Output lines.                                                           *)

Line(label, text) == [label |-> label, text |-> text]

(* line 9 *)
Banner == << Line("banner", "") >>

(* SummaryLabels with the two name lines exchanged. *)
SummaryLabelsSwapped ==
    << "ID", "Last Name", "First Name", "Email", "Email Addresses Count",
       "SAML Accounts Count", "Enterprise Accounts Count", "Created At", "Last Sign In" >>

(* lines 68-80: the labels of the summary lines, in the order printed *)
SummaryLabels ==
    << "ID", "First Name", "Last Name", "Email", "Email Addresses Count",
       "SAML Accounts Count", "Enterprise Accounts Count", "Created At", "Last Sign In" >>

(* lines 67-80 *)
SuccessBlock ==
    << Line("success", "") >>
    \o [i \in 1..Len(SummaryLabels) |-> Line("summary", SummaryLabels[i])]

(* FieldsListing that starts at the second key. *)
FieldsListingSkipFirst(text) ==
    IF WellFormed(text) /\ IsObject(FromText(text))
    THEN LET obj == FromText(text).obj
             keys == SelectSeq(KeyOrder, LAMBDA k : k \in DOMAIN obj)
         IN  << Line("fields", "") >> \o [i \in 1..Len(keys) - 1 |-> Line("field", keys[i + 1])]
    ELSE << >>

(* lines 90-97: the listing of the top-level keys of the re-parsed text *)
FieldsListing(text) ==
    IF WellFormed(text) /\ IsObject(FromText(text))
    THEN LET obj == FromText(text).obj
             keys == SelectSeq(KeyOrder, LAMBDA k : k \in DOMAIN obj)
         IN  << Line("fields", "") >> \o [i \in 1..Len(keys) |-> Line("field", keys[i])]
    ELSE << >>

(* lines 83-97 *)
FailureBlock(text) ==
    << Line("failure", ""), Line("debug", ""), Line("details", "") >> \o FieldsListing(text)

----------------------------------------------------------------------------
(* The run of main.                                                        *)

(* user.json holds the text of a flat object: the identity field, the     *)
(* denylisted field and the three containers, each present or not, the     *)
(* containers holding at most MaxRecords records of `records` together.    *)
DrawFile(records) ==
    \E ne, ns, nt \in 0..MaxRecords :
        /\ ne + ns + nt <= MaxRecords
        /\ \E top \in TopValues :
           \E e \in ContainerValues(ne, records), s \in ContainerValues(ns, records),
              t \in ContainerValues(nt, records) :
              file = [exists |-> TRUE,
                      text |-> ToText(MakeObject(
                          [id |-> top.id, create_organizations_limit |-> top.col,
                           email_addresses |-> e, saml_accounts |-> s,
                           enterprise_accounts |-> t]))]

Init ==
    /\ pc = "read"
    /\ \/ file = [exists |-> FALSE, text |-> Malformed]
       \/ \E t \in OtherTexts : file = [exists |-> TRUE, text |-> t]
       \/ DrawFile(SampleRecords)
    /\ json_value = Null
    /\ parsed = Null
    /\ cleaned_json = Null
    /\ out = << >>
    /\ result = "running"
    /\ steps = << >>

(* The run at line 18, the file read and parsed: the inputs of the         *)
(* normalization.                                                          *)
InitNormalize ==
    /\ pc = "normalize"
    /\ \/ \E t \in OtherTexts : file = [exists |-> TRUE, text |-> t]
       \/ DrawFile(RecordValues)
    /\ WellFormed(file.text)
    /\ json_value = FromText(file.text)
    /\ parsed = json_value
    /\ cleaned_json = Null
    /\ out = Banner
    /\ result = "running"
    /\ steps = << "read", "parse" >>

(* line 7: fs::read_to_string("user.json")?, then line 9 *)
ReadFile ==
    /\ pc = "read"
    /\ steps' = Append(steps, "read")
    /\ IF file.exists
       THEN /\ out' = out \o Banner
            /\ pc' = "parse"
            /\ UNCHANGED result
       ELSE /\ result' = "Err"
            /\ pc' = "done"
            /\ UNCHANGED out
    /\ UNCHANGED <<file, json_value, parsed, cleaned_json>>

(* line 12: serde_json::from_str(&json_content)? *)
ParseJson ==
    /\ pc = "parse"
    /\ steps' = Append(steps, "parse")
    /\ IF WellFormed(file.text)
       THEN /\ json_value' = FromText(file.text)
            /\ parsed' = FromText(file.text)
            /\ pc' = "normalize"
            /\ UNCHANGED result
       ELSE /\ result' = "Err"
            /\ pc' = "done"
            /\ UNCHANGED <<json_value, parsed>>
    /\ UNCHANGED <<file, cleaned_json, out>>

(* lines 18-60 *)
NormalizeJson ==
    /\ pc = "normalize"
    /\ steps' = Append(steps, "normalize")
    /\ json_value' = Normalize(json_value)
    /\ pc' = "serialize"
    /\ UNCHANGED <<file, parsed, cleaned_json, out, result>>

(* line 63: serde_json::to_string_pretty(&json_value)?; writing a Value    *)
(* to a string has no failing case.                                        *)
Serialize ==
    /\ pc = "serialize"
    /\ steps' = Append(steps, "serialize")
    /\ cleaned_json' = ToText(json_value)
    /\ pc' = "decode"
    /\ UNCHANGED <<file, json_value, parsed, out, result>>

(* lines 65-81 and 101: the strict decode into User returns Ok *)
DecodeOk ==
    /\ pc = "decode"
    /\ steps' = Append(steps, "decode_ok")
    /\ out' = out \o SuccessBlock
    /\ result' = "Ok"
    /\ pc' = "done"
    /\ UNCHANGED <<file, json_value, parsed, cleaned_json>>

(* DecodeErr that hands the decode error to the caller. *)
DecodeErrFatal ==
    /\ pc = "decode"
    /\ steps' = Append(steps, "decode_err")
    /\ result' = "Err"
    /\ pc' = "done"
    /\ UNCHANGED <<file, json_value, parsed, cleaned_json, out>>

(* lines 65, 82-98 and 101: the strict decode into User returns Err *)
DecodeErr ==
    /\ pc = "decode"
    /\ steps' = Append(steps, "decode_err")
    /\ out' = out \o FailureBlock(cleaned_json)
    /\ result' = "Ok"
    /\ pc' = "done"
    /\ UNCHANGED <<file, json_value, parsed, cleaned_json>>

Next ==
    \/ ReadFile
    \/ ParseJson
    \/ NormalizeJson
    \/ Serialize
    \/ DecodeOk
    \/ DecodeErr

Spec == Init /\ [][Next]_vars

(* The normalization alone, on every document of the bound. *)
SpecNormalize == InitNormalize /\ [][NormalizeJson]_vars

----------------------------------------------------------------------------
(* Vocabulary of the properties.                                           *)

Url == "external_verification_redirect_url"

Containers == {"email_addresses", "saml_accounts", "enterprise_accounts"}

AccountContainers == {"saml_accounts", "enterprise_accounts"}

(* The normalization has run on json_value; parsed is the document before. *)
Normalized == pc = "serialize"

(* The records of container c of document doc (none unless it is an array) *)
RecordsOf(doc, c) ==
    IF HasKey(doc, c) /\ IsArray(doc.obj[c]) THEN doc.obj[c].arr ELSE << >>

HasVerification(r) == HasKey(r, "verification") /\ IsObject(r.obj["verification"])

VerificationOf(r) == r.obj["verification"].obj

HasStringTag(r) ==
    "object" \in DOMAIN VerificationOf(r) /\ IsStr(VerificationOf(r)["object"])

TagIs(r, tag) == HasStringTag(r) /\ VerificationOf(r)["object"].str = tag

(* The record without the redirect url of its verification object. *)
EraseRecord(r) ==
    IF HasVerification(r)
    THEN Obj([k \in DOMAIN r.obj |->
                 IF k = "verification"
                 THEN Obj([x \in DOMAIN VerificationOf(r) \ {Url} |-> VerificationOf(r)[x]])
                 ELSE r.obj[k]])
    ELSE r

(* The document without the two keys the normalization may touch. *)
Erase(doc) ==
    IF IsObject(doc)
    THEN Obj([k \in DOMAIN doc.obj \ {"create_organizations_limit"} |->
                 IF k \in Containers /\ IsArray(doc.obj[k])
                 THEN Arr([i \in 1..Len(doc.obj[k].arr) |-> EraseRecord(doc.obj[k].arr[i])])
                 ELSE doc.obj[k]])
    ELSE doc

(* The document needs no repair. *)
Conformant(doc) ==
    /\ ~HasKey(doc, "create_organizations_limit")
    /\ \A i \in 1..Len(RecordsOf(doc, "email_addresses")) :
          LET r == RecordsOf(doc, "email_addresses")[i]
          IN  HasVerification(r) /\ TagIs(r, "verification_saml")
                  => Url \notin DOMAIN VerificationOf(r)
    /\ \A c \in AccountContainers : \A i \in 1..Len(RecordsOf(doc, c)) :
          LET r == RecordsOf(doc, c)[i]
          IN  HasVerification(r) => Url \in DOMAIN VerificationOf(r)

(* The texts of the output lines with the given label, in order. *)
LinesOf(label) ==
    LET sel == SelectSeq(out, LAMBDA l : l.label = label)
    IN  [i \in 1..Len(sel) |-> sel[i].text]

Range(seq) == {seq[i] : i \in 1..Len(seq)}

Did(step) == step \in Range(steps)

----------------------------------------------------------------------------
(* C1: normalization is idempotent: normalizing the normalized document    *)
(* again yields the normalized document.                                   *)
C1_Idempotent == Normalized => Normalize(json_value) = json_value

(* A document in which the denylisted field, an email record and an        *)
(* account record were all repaired.                                       *)
C1_Witness ==
    /\ Normalized
    /\ HasKey(parsed, "create_organizations_limit")
    /\ RecordsOf(parsed, "email_addresses") # RecordsOf(json_value, "email_addresses")
    /\ RecordsOf(parsed, "saml_accounts") # RecordsOf(json_value, "saml_accounts")

(* C2: every saml_accounts / enterprise_accounts record with a             *)
(* verification object has the redirect url after normalization: null if   *)
(* it was absent, its prior value if it was present.                       *)
C2_AccountRepair ==
    Normalized =>
        \A c \in AccountContainers :
            LET before == RecordsOf(parsed, c)
                after == RecordsOf(json_value, c)
            IN  /\ Len(after) = Len(before)
                /\ \A i \in 1..Len(before) :
                      HasVerification(before[i]) =>
                          /\ HasVerification(after[i])
                          /\ Url \in DOMAIN VerificationOf(after[i])
                          /\ IF Url \in DOMAIN VerificationOf(before[i])
                             THEN VerificationOf(after[i])[Url] = VerificationOf(before[i])[Url]
                             ELSE VerificationOf(after[i])[Url] = Null

(* A saml account that gained the field and an enterprise account that     *)
(* kept its non-null value.                                                *)
C2_Witness ==
    /\ Normalized
    /\ \E i \in 1..Len(RecordsOf(parsed, "saml_accounts")) :
          LET r == RecordsOf(parsed, "saml_accounts")[i]
          IN  HasVerification(r) /\ Url \notin DOMAIN VerificationOf(r)
    /\ \E i \in 1..Len(RecordsOf(parsed, "enterprise_accounts")) :
          LET r == RecordsOf(parsed, "enterprise_accounts")[i]
          IN  /\ HasVerification(r)
              /\ Url \in DOMAIN VerificationOf(r)
              /\ VerificationOf(r)[Url] = Str("https://x")

(* C3: an email_addresses record with a verification object has no         *)
(* redirect url after normalization when its tag is "verification_saml";   *)
(* with any other string tag its verification object is unchanged.         *)
C3_EmailRepair ==
    Normalized =>
        LET before == RecordsOf(parsed, "email_addresses")
            after == RecordsOf(json_value, "email_addresses")
        IN  /\ Len(after) = Len(before)
            /\ \A i \in 1..Len(before) :
                  HasVerification(before[i]) =>
                      /\ HasVerification(after[i])
                      /\ TagIs(before[i], "verification_saml")
                             => Url \notin DOMAIN VerificationOf(after[i])
                      /\ HasStringTag(before[i]) /\ ~TagIs(before[i], "verification_saml")
                             => VerificationOf(after[i]) = VerificationOf(before[i])

(* A SAML-tagged email record that carried the field next to one with      *)
(* another tag that carries it.                                            *)
C3_Witness ==
    /\ Normalized
    /\ \E i, j \in 1..Len(RecordsOf(parsed, "email_addresses")) :
          LET r == RecordsOf(parsed, "email_addresses")[i]
              q == RecordsOf(parsed, "email_addresses")[j]
          IN  /\ HasVerification(r) /\ TagIs(r, "verification_saml")
              /\ Url \in DOMAIN VerificationOf(r)
              /\ HasVerification(q) /\ TagIs(q, "verification_email_code")
              /\ Url \in DOMAIN VerificationOf(q)

(* C4: normalization changes nothing but the top-level                     *)
(* create_organizations_limit and the redirect url inside verification     *)
(* objects of records of the three containers; a container that is not an  *)
(* array, a record without a verification object and a conformant document *)
(* are unchanged.                                                          *)
C4_NonInterference ==
    Normalized =>
        /\ Erase(json_value) = Erase(parsed)
        /\ IsObject(json_value) <=> IsObject(parsed)
        /\ \A c \in Containers :
              /\ HasKey(json_value, c) <=> HasKey(parsed, c)
              /\ HasKey(parsed, c) /\ ~IsArray(parsed.obj[c])
                     => json_value.obj[c] = parsed.obj[c]
              /\ Len(RecordsOf(json_value, c)) = Len(RecordsOf(parsed, c))
              /\ \A i \in 1..Len(RecordsOf(parsed, c)) :
                     ~HasVerification(RecordsOf(parsed, c)[i])
                         => RecordsOf(json_value, c)[i] = RecordsOf(parsed, c)[i]
        /\ Conformant(parsed) => json_value = parsed

(* A document with a container that is not an array, a record whose        *)
(* verification is not an object, and a repaired record.                   *)
C4_Witness ==
    /\ Normalized
    /\ json_value # parsed
    /\ \E c \in Containers : HasKey(parsed, c) /\ ~IsArray(parsed.obj[c])
    /\ \E c \in Containers : \E i \in 1..Len(RecordsOf(parsed, c)) :
          /\ HasKey(RecordsOf(parsed, c)[i], "verification")
          /\ ~HasVerification(RecordsOf(parsed, c)[i])

(* C7: after normalization of an object, create_organizations_limit is     *)
(* absent from the top level whatever its value was; if it was absent the  *)
(* top-level key set is unchanged.                                         *)
C7_DenylistRemoval ==
    Normalized /\ IsObject(parsed) =>
        /\ IsObject(json_value)
        /\ "create_organizations_limit" \notin DOMAIN json_value.obj
        /\ DOMAIN json_value.obj = DOMAIN parsed.obj \ {"create_organizations_limit"}

(* The denylisted field was present with the value null. *)
C7_Witness ==
    /\ Normalized
    /\ HasKey(parsed, "create_organizations_limit")
    /\ parsed.obj["create_organizations_limit"] = Null
    /\ ~HasKey(json_value, "create_organizations_limit")

(* C9 as stated: in each of the three containers a record whose tag is     *)
(* absent or not a string keeps its verification object as it was.         *)
C9_TagGatingAll ==
    Normalized =>
        \A c \in Containers : \A i \in 1..Len(RecordsOf(parsed, c)) :
            LET r == RecordsOf(parsed, c)[i]
            IN  HasVerification(r) /\ ~HasStringTag(r)
                    => RecordsOf(json_value, c)[i] = r

(* C9 amended: the tag gates the repair of email_addresses only: a record  *)
(* there whose tag is absent or not a string is unchanged; a record of     *)
(* saml_accounts or enterprise_accounts whose tag is absent or not a       *)
(* string gains the redirect url as null when it lacks it, and is          *)
(* otherwise unchanged.                                                    *)
C9_TagGatingEmailOnly ==
    Normalized =>
        /\ \A i \in 1..Len(RecordsOf(parsed, "email_addresses")) :
              LET r == RecordsOf(parsed, "email_addresses")[i]
              IN  HasVerification(r) /\ ~HasStringTag(r)
                      => RecordsOf(json_value, "email_addresses")[i] = r
        /\ \A c \in AccountContainers : \A i \in 1..Len(RecordsOf(parsed, c)) :
              LET r == RecordsOf(parsed, c)[i]
                  q == RecordsOf(json_value, c)[i]
              IN  HasVerification(r) /\ ~HasStringTag(r) =>
                      IF Url \in DOMAIN VerificationOf(r)
                      THEN q = r
                      ELSE /\ HasVerification(q)
                           /\ Url \in DOMAIN VerificationOf(q)
                           /\ VerificationOf(q)[Url] = Null
                           /\ EraseRecord(q) = EraseRecord(r)
                           /\ q # r

(* An untagged saml account without the field, and an email record with a  *)
(* tag that is not a string carrying the field.                            *)
C9_Witness ==
    /\ Normalized
    /\ \E i \in 1..Len(RecordsOf(parsed, "saml_accounts")) :
          LET r == RecordsOf(parsed, "saml_accounts")[i]
          IN  /\ HasVerification(r)
              /\ "object" \notin DOMAIN VerificationOf(r)
              /\ Url \notin DOMAIN VerificationOf(r)
    /\ \E i \in 1..Len(RecordsOf(parsed, "email_addresses")) :
          LET r == RecordsOf(parsed, "email_addresses")[i]
          IN  /\ HasVerification(r)
              /\ "object" \in DOMAIN VerificationOf(r)
              /\ ~HasStringTag(r)
              /\ Url \in DOMAIN VerificationOf(r)

(* C10: each container keeps its length and its order: the i-th record     *)
(* after normalization is the repaired i-th record; records equal before   *)
(* are equal after.                                                        *)
C10_OrderPreserved ==
    Normalized =>
        \A c \in Containers :
            LET before == RecordsOf(parsed, c)
                after == RecordsOf(json_value, c)
            IN  /\ Len(after) = Len(before)
                /\ \A i \in 1..Len(before) :
                      /\ EraseRecord(after[i]) = EraseRecord(before[i])
                      /\ after[i] = ( CASE c = "email_addresses" -> FixEmail(before[i])
                                        [] c = "saml_accounts" -> FixSamlAccount(before[i])
                                        [] OTHER -> FixEnterpriseAccount(before[i]) )
                /\ \A i, j \in 1..Len(before) :
                      before[i] = before[j] => after[i] = after[j]

(* A container of two different records, the second one repaired, and a    *)
(* container of two equal records, both repaired.                          *)
C10_Witness ==
    /\ Normalized
    /\ \E c \in Containers :
          /\ Len(RecordsOf(parsed, c)) = 2
          /\ \/ /\ EraseRecord(RecordsOf(parsed, c)[1]) # EraseRecord(RecordsOf(parsed, c)[2])
                /\ RecordsOf(json_value, c)[2] # RecordsOf(parsed, c)[2]
             \/ /\ RecordsOf(parsed, c)[1] = RecordsOf(parsed, c)[2]
                /\ RecordsOf(json_value, c)[1] # RecordsOf(parsed, c)[1]

----------------------------------------------------------------------------
(* The run to its end.                                                     *)

Done == pc = "done"

(* The number of result blocks in the output. *)
Blocks == Len(LinesOf("success")) + Len(LinesOf("failure"))

(* C5: a run whose file is read and parses as JSON returns Ok after        *)
(* exactly one result block, whether the decode succeeds or fails; the run *)
(* returns an error exactly when the read or the parse fails, and then no  *)
(* normalization, no decode and no result block happened.  No run stops    *)
(* before its end.                                                         *)
C5_DecodeFailureNotFatal ==
    /\ ~Done => result = "running" /\ ENABLED Next
    /\ Done =>
          /\ result \in {"Ok", "Err"}
          /\ result = "Err" <=> ~(file.exists /\ WellFormed(file.text))
          /\ result = "Ok" =>
                /\ Blocks = 1
                /\ Did("normalize")
                /\ Did("decode_ok") # Did("decode_err")
                /\ Did("decode_ok") <=> Len(LinesOf("success")) = 1
          /\ result = "Err" =>
                /\ Blocks = 0
                /\ ~Did("normalize") /\ ~Did("serialize")
                /\ ~Did("decode_ok") /\ ~Did("decode_err")
                /\ json_value = Null /\ cleaned_json = Null
                /\ Range(out) \subseteq Range(Banner)

(* A run whose decode failed and that returned Ok. *)
C5_Witness == Done /\ Did("decode_err") /\ result = "Ok" /\ Blocks = 1

(* The top-level keys of a document (none when it is not an object). *)
TopKeys(doc) == IF IsObject(doc) THEN DOMAIN doc.obj ELSE {}

(* C6: when the decode fails, the keys listed under "fields present" are   *)
(* exactly the top-level keys of the normalized document, each once, and   *)
(* never create_organizations_limit; for a document that is not an object  *)
(* nothing is listed.                                                      *)
C6_FieldsPresent ==
    Done /\ Did("decode_err") =>
        /\ Range(LinesOf("field")) = TopKeys(json_value)
        /\ Len(LinesOf("field")) = Cardinality(TopKeys(json_value))
        /\ "create_organizations_limit" \notin Range(LinesOf("field"))
        /\ Len(LinesOf("fields")) = (IF IsObject(json_value) THEN 1 ELSE 0)

(* A failed decode of a document that came with the denylisted field and   *)
(* two more keys.                                                          *)
C6_Witness ==
    /\ Done /\ Did("decode_err")
    /\ HasKey(parsed, "create_organizations_limit")
    /\ Cardinality(TopKeys(json_value)) >= 2

(* C8 as stated: a successful decode prints eight summary lines in the     *)
(* fixed order, a failed decode none.                                      *)
C8_EightSummaryLines ==
    Done =>
        /\ Did("decode_ok") => Len(LinesOf("summary")) = 8
        /\ Did("decode_err") => Len(LinesOf("summary")) = 0

(* C8 amended: a successful decode prints nine summary lines in the fixed  *)
(* order (identifier, given name, family name, primary email, the three    *)
(* collection counts, creation timestamp, last-authentication timestamp),  *)
(* after one heading line; a failed decode prints none.                    *)
C8_NineSummaryLines ==
    Done =>
        /\ Did("decode_ok") =>
              /\ LinesOf("summary") =
                    << "ID", "First Name", "Last Name", "Email",
                       "Email Addresses Count", "SAML Accounts Count",
                       "Enterprise Accounts Count", "Created At", "Last Sign In" >>
              /\ Len(out) = 11
              /\ out[2].label = "success"
        /\ Did("decode_err") => Len(LinesOf("summary")) = 0

(* A run whose decode succeeded. *)
C8_Witness == Done /\ Did("decode_ok") /\ Len(LinesOf("success")) = 1

====
